---- MODULE Spec2Model ----
(***************************************************************************)
(* Model of the music-streaming demo backend (src/main.py, src/schemas.py).*)
(* The state is the document store (the `track` and `playlist`            *)
(* collections and the identifier generator of the database) and, for     *)
(* every worker of the handler pool, the request it serves, its position  *)
(* in the handler, its locals and its last response.  A worker yields      *)
(* only at a database call: one step of the model is the handler's code up *)
(* to and including its next database call (and, after the last database  *)
(* call, up to the response).  The database answers every call it is      *)
(* sent; a failed connection is not modelled, an absent handle is (dbOk).  *)
(*                                                                         *)
(*   dbOk      the handle `db` is not None                                 *)
(*   track     the `track` collection, in storage order                    *)
(*   playlist  the `playlist` collection, in storage order                 *)
(*   nextOid   the next identifier the database will assign                *)
(*   pc        per worker: "idle" or the label it goes on at               *)
(*   req       per worker: the request it serves or served last            *)
(*   loc       per worker: the handler's locals that outlive a step        *)
(*   resp      per worker: the response it returned last                   *)
(*   pre       per worker: the store as it was when the request came in    *)
(*   created   the (id, payload) pairs answered by POST /tracks so far     *)
(*   nreq      the number of requests taken so far                         *)
(*   ser       a document and the results of serialize_doc applied to it   *)
(***************************************************************************)
EXTENDS Integers, Sequences, FiniteSets, TLC

VARIABLES dbOk, track, playlist, nextOid, pc, req, loc, resp, pre, created,
          nreq, ser

vars == <<dbOk, track, playlist, nextOid, pc, req, loc, resp, pre, created,
          nreq, ser>>

(***************************************************************************)
(* Bounds of the model.                                                    *)
(***************************************************************************)
NProcs == 2
MaxReq == 4
MaxDocs == 51

Procs == 1..NProcs

\* Default of the `limit` query parameter of GET /tracks and GET /playlists.
TracksDefaultLimit == 50
PlaylistsDefaultLimit == 50

\* Identifiers the model can name: enough for every insert of every run.
MaxOid == 2 * MaxDocs + 3 * MaxReq + 3 * NProcs + 2

Min(a, b) == IF a <= b THEN a ELSE b

(***************************************************************************)
(* Python values.  Every value carries its type tag, so that isinstance    *)
(* and truthiness are computed as Python computes them.                    *)
(***************************************************************************)
PyNone == [t |-> "none", v |-> 0]
PyStr(s) == [t |-> "str", v |-> s]
PyInt(n) == [t |-> "int", v |-> n]
PyBool(b) == [t |-> "bool", v |-> b]
PyList(s) == [t |-> "list", v |-> s]
PyDict(f) == [t |-> "dict", v |-> f]
PyOid(n) == [t |-> "ObjectId", v |-> n]

\* bool(x): None, 0, "", [] and {} are falsy; an ObjectId is always truthy.
Truthy(x) ==
    CASE x.t = "none" -> FALSE
      [] x.t = "str" -> x.v # ""
      [] x.t = "int" -> x.v # 0
      [] x.t = "bool" -> x.v
      [] x.t = "list" -> Len(x.v) > 0
      [] x.t = "dict" -> DOMAIN x.v # {}
      [] OTHER -> TRUE

(***************************************************************************)
(* bson.ObjectId.  A 12-byte identifier is modelled by its number n; its   *)
(* 24-digit hexadecimal text is written "5f" \o n in lower case (what      *)
(* str() prints) and "5F" \o n in upper case (which the parser accepts     *)
(* too: hexadecimal digits are read case-insensitively).                   *)
(***************************************************************************)
HexLower(n) == "5f" \o ToString(n)
HexUpper(n) == "5F" \o ToString(n)

\* ObjectId.is_valid(s)
is_valid(s) == \E n \in 1..MaxOid : s \in {HexLower(n), HexUpper(n)}

\* ObjectId(s), for a valid s (an invalid s raises InvalidId).
ObjectId(s) == PyOid(CHOOSE n \in 1..MaxOid : s \in {HexLower(n), HexUpper(n)})

\* str(x)
str(x) ==
    CASE x.t = "ObjectId" -> HexLower(x.v)
      [] x.t = "str" -> x.v
      [] x.t = "int" -> ToString(x.v)
      [] OTHER -> "None"

(***************************************************************************)
(* serialize_doc (src/main.py:30-40)                                       *)
(***************************************************************************)
\* doc.get("_id")
GetId(d) == IF "_id" \in DOMAIN d THEN d["_id"] ELSE PyNone

\* A serialize_doc that copies `_id` to `id` and forgets to pop it.
RenameId_keep(d) ==
    IF Truthy(GetId(d))
    THEN [k \in DOMAIN d \cup {"id"} |->
             IF k = "id" THEN PyStr(str(d["_id"])) ELSE d[k]]
    ELSE d

\* if doc.get("_id"): doc["id"] = str(doc.pop("_id"))
RenameId(d) ==
    IF Truthy(GetId(d))
    THEN [k \in (DOMAIN d \ {"_id"}) \cup {"id"} |->
             IF k = "id" THEN PyStr(str(d["_id"])) ELSE d[k]]
    ELSE d

\* for k, v in list(doc.items()): if isinstance(v, ObjectId): doc[k] = str(v)
ConvertOids(d) ==
    [k \in DOMAIN d |-> IF d[k].t = "ObjectId" THEN PyStr(str(d[k])) ELSE d[k]]

serialize_doc(doc) ==
    IF ~Truthy(doc) THEN doc ELSE PyDict(ConvertOids(RenameId(doc.v)))

(***************************************************************************)
(* Schemas and fixed data                                                  *)
(***************************************************************************)
\* Fields of schemas.Track and of main.CreateTrack.
TrackFields == {"title", "artist", "album", "cover_url", "audio_url", "duration_ms"}

\* Fields of main.CreatePlaylist.
PlaylistFields == {"name", "description", "cover_url"}

\* A Track model that loses duration_ms.
Track_no_duration(payload) ==
    [k \in TrackFields |-> IF k = "duration_ms" THEN PyNone ELSE payload[k]]

\* Track(**payload.model_dump()): the validated model, dumped on insert.
Track(payload) == [k \in TrackFields |-> payload[k]]

\* demo_tracks of seed()
demo_tracks ==
    << [title |-> PyStr("Dreamscape"), artist |-> PyStr("Nocturne"),
        album |-> PyStr("Midnight City"),
        cover_url |-> PyStr("https://images.unsplash.com/photo-1511379938547-c1f69419868d?w=800&q=80&auto=format&fit=crop"),
        audio_url |-> PyStr("https://cdn.pixabay.com/download/audio/2021/11/16/audio_7b2a3f9b9a.mp3?filename=lofi-study-112191.mp3"),
        duration_ms |-> PyInt(152000)],
       [title |-> PyStr("Sunset Drive"), artist |-> PyStr("Neon Waves"),
        album |-> PyStr("Coastal Roads"),
        cover_url |-> PyStr("https://images.unsplash.com/photo-1511671782779-c97d3d27a1d4?w=800&q=80&auto=format&fit=crop"),
        audio_url |-> PyStr("https://cdn.pixabay.com/download/audio/2021/12/07/audio_7b5b2f6d8b.mp3?filename=vibes-122242.mp3"),
        duration_ms |-> PyInt(180000)],
       [title |-> PyStr("Crystal Air"), artist |-> PyStr("Aurora"),
        album |-> PyStr("Skylight"),
        cover_url |-> PyStr("https://images.unsplash.com/photo-1515263487990-61b07816b324?w=800&q=80&auto=format&fit=crop"),
        audio_url |-> PyStr("https://cdn.pixabay.com/download/audio/2022/03/15/audio_7e0b7b5d03.mp3?filename=chill-ambient-10962.mp3"),
        duration_ms |-> PyInt(210000)] >>

(***************************************************************************)
(* The document store.  A collection is the sequence of its documents in   *)
(* storage order; a document is a mapping from field names to values.      *)
(***************************************************************************)
\* insert_one: the database assigns the next unused identifier.
insert_one(coll, fields, n) ==
    Append(coll, [k \in DOMAIN fields \cup {"_id"} |->
                      IF k = "_id" THEN PyOid(n) ELSE fields[k]])

\* db[...].count_documents({})
count_documents(coll) == Len(coll)

Matches(coll, oid) == {i \in DOMAIN coll : coll[i]["_id"] = oid}

FirstMatch(coll, oid) ==
    CHOOSE i \in Matches(coll, oid) : \A j \in Matches(coll, oid) : i <= j

\* db[...].find_one({"_id": oid}): the document, or None.
find_one(coll, oid) ==
    IF Matches(coll, oid) = {} THEN PyNone ELSE PyDict(coll[FirstMatch(coll, oid)])

Elems(s) == {s[i] : i \in DOMAIN s}

\* $addToSet on an array: append the value unless the array holds it.
addToSet(arr, x) == IF x \in Elems(arr) THEN arr ELSE Append(arr, x)

\* An update with $push in place of $addToSet.
update_one_push(coll, oid, s) ==
    IF Matches(coll, oid) = {} THEN coll
    ELSE [coll EXCEPT ![FirstMatch(coll, oid)] =
             [@ EXCEPT !["tracks"] = PyList(Append(@.v, PyStr(s)))]]

\* An update with $set in place of $addToSet.
update_one_set(coll, oid, s) ==
    IF Matches(coll, oid) = {} THEN coll
    ELSE [coll EXCEPT ![FirstMatch(coll, oid)] =
             [@ EXCEPT !["tracks"] = PyList(<<PyStr(s)>>)]]

\* db["playlist"].update_one({"_id": pid}, {"$addToSet": {"tracks": s}}):
\* one atomic step of the database; no match, no change (no upsert).
update_one(coll, oid, s) ==
    IF Matches(coll, oid) = {} THEN coll
    ELSE [coll EXCEPT ![FirstMatch(coll, oid)] =
             [@ EXCEPT !["tracks"] = PyList(addToSet(@.v, PyStr(s)))]]

\* database.get_documents(collection, {}, limit): up to `limit` records,
\* the first ones in storage order.  What a limit of 0 or less returns is not
\* laid down: nothing, every record (a limit of 0 read as "no limit") or
\* the first |limit| records.  The operator is the set of possible results.
get_documents(coll, limit) ==
    IF limit > 0
    THEN {SubSeq(coll, 1, Min(limit, Len(coll)))}
    ELSE {<<>>, coll, SubSeq(coll, 1, Min(-limit, Len(coll)))}

\* db.list_collection_names(): a collection exists once it holds a document.
list_collection_names ==
    (IF Len(track) > 0 THEN <<PyStr("track")>> ELSE <<>>)
    \o (IF Len(playlist) > 0 THEN <<PyStr("playlist")>> ELSE <<>>)

(***************************************************************************)
(* Responses                                                               *)
(***************************************************************************)
Response(status, body) == [status |-> status, body |-> body]

\* raise HTTPException(status_code=..., detail=...)
HTTPException(status, detail) == Response(status, PyDict([detail |-> PyStr(detail)]))

NoReq == [op |-> "none"]
NoResp == Response(0, PyNone)
NoLoc == [i |-> 0, id |-> ""]

Snapshot == [track |-> track, playlist |-> playlist, nextOid |-> nextOid]

\* [serialize_doc(d) for d in docs]
SerializeAll(docs) == PyList([i \in DOMAIN docs |-> serialize_doc(PyDict(docs[i]))])

(***************************************************************************)
(* database.create_document(collection, data): inserts the record and      *)
(* returns the new identifier as a string; fails when the database handle  *)
(* is absent (the callers below test dbOk before using it).                *)
(***************************************************************************)
create_document(coll, data, n) == insert_one(coll, data, n)

inserted_id(n) == str(PyOid(n))

(***************************************************************************)
(* Steps of a worker                                                       *)
(***************************************************************************)
\* The worker takes a request.
Start(p, r) ==
    /\ pc[p] = "idle"
    /\ req' = [req EXCEPT ![p] = r]
    /\ pre' = [pre EXCEPT ![p] = Snapshot]
    /\ nreq' = nreq + 1

\* The handler returns (or raises) and the worker is free again.
Finish(p, r) ==
    /\ resp' = [resp EXCEPT ![p] = r]
    /\ pc' = [pc EXCEPT ![p] = "idle"]
    /\ loc' = [loc EXCEPT ![p] = NoLoc]

\* The handler has made a database call and goes on at label l.
Goto(p, l, lc) ==
    /\ pc' = [pc EXCEPT ![p] = l]
    /\ loc' = [loc EXCEPT ![p] = lc]
    /\ UNCHANGED resp

DbSame == UNCHANGED <<track, playlist, nextOid>>

\* GET /
read_root(p) ==
    /\ Start(p, [op |-> "read_root"])
    /\ Finish(p, Response(200, PyDict([message |-> PyStr("Spotify-lite API running")])))
    /\ DbSame
    /\ UNCHANGED <<dbOk, created, ser>>

\* A seed that tests count > 3.
AlreadySeeded_gt3(count) == count > 3

\* if count > 0: return ... "seeded": False
AlreadySeeded(count) == count > 0

NotSeeded(count) ==
    Response(200, PyDict([status |-> PyStr("ok"), seeded |-> PyBool(FALSE),
                          existing |-> PyInt(count)]))

Seeded(count) ==
    Response(200, PyDict([status |-> PyStr("ok"), seeded |-> PyBool(TRUE),
                          count |-> PyInt(count)]))

\* POST /seed, up to count_documents
seed(p) ==
    /\ Start(p, [op |-> "seed"])
    /\ IF ~dbOk
         THEN Finish(p, HTTPException(500, "Database not configured"))
         ELSE IF AlreadySeeded(count_documents(track))
                THEN Finish(p, NotSeeded(count_documents(track)))
                ELSE Goto(p, "seed_insert", [i |-> 1, id |-> ""])
    /\ DbSame
    /\ UNCHANGED <<dbOk, created, ser>>

\* POST /seed, one turn of `for t in demo_tracks: create_document("track", t)`
seed_insert(p) ==
    /\ pc[p] = "seed_insert"
    /\ track' = create_document(track, demo_tracks[loc[p].i], nextOid)
    /\ nextOid' = nextOid + 1
    /\ IF loc[p].i = Len(demo_tracks)
         THEN Finish(p, Seeded(Len(demo_tracks)))
         ELSE Goto(p, "seed_insert", [i |-> loc[p].i + 1, id |-> ""])
    /\ UNCHANGED <<dbOk, playlist, req, pre, created, nreq, ser>>

\* A GET /tracks that does not hand `limit` to get_documents.
ListTracksResult_nolimit(has_limit, limit) ==
    IF dbOk
    THEN {Response(200, SerializeAll(track))}
    ELSE {HTTPException(500, "exception")}

\* The responses GET /tracks can give; has_limit is FALSE when `limit` is
\* omitted.
ListTracksResult(has_limit, limit) ==
    IF dbOk
    THEN {Response(200, SerializeAll(docs)) :
             docs \in get_documents(track,
                          IF has_limit THEN limit ELSE TracksDefaultLimit)}
    ELSE {HTTPException(500, "exception")}

\* GET /tracks
list_tracks(p, has_limit, limit) ==
    /\ Start(p, [op |-> "list_tracks", has_limit |-> has_limit, limit |-> limit])
    /\ \E r \in ListTracksResult(has_limit, limit) : Finish(p, r)
    /\ DbSame
    /\ UNCHANGED <<dbOk, created, ser>>

\* The responses GET /playlists can give.
ListPlaylistsResult(has_limit, limit) ==
    IF dbOk
    THEN {Response(200, SerializeAll(docs)) :
             docs \in get_documents(playlist,
                          IF has_limit THEN limit ELSE PlaylistsDefaultLimit)}
    ELSE {HTTPException(500, "exception")}

\* GET /playlists
list_playlists(p, has_limit, limit) ==
    /\ Start(p, [op |-> "list_playlists", has_limit |-> has_limit, limit |-> limit])
    /\ \E r \in ListPlaylistsResult(has_limit, limit) : Finish(p, r)
    /\ DbSame
    /\ UNCHANGED <<dbOk, created, ser>>

\* POST /tracks, up to create_document
create_track(p, payload) ==
    /\ Start(p, [op |-> "create_track", payload |-> payload])
    /\ IF ~dbOk
         THEN /\ Finish(p, HTTPException(400, "exception"))
              /\ DbSame
         ELSE /\ track' = create_document(track, Track(payload), nextOid)
              /\ nextOid' = nextOid + 1
              /\ Goto(p, "create_track_find", [i |-> 0, id |-> inserted_id(nextOid)])
              /\ UNCHANGED playlist
    /\ UNCHANGED <<dbOk, created, ser>>

\* POST /tracks, from find_one to the response
create_track_find(p) ==
    /\ pc[p] = "create_track_find"
    /\ LET doc == serialize_doc(find_one(track, ObjectId(loc[p].id)))
       IN /\ Finish(p, Response(200, doc))
          /\ created' = IF Truthy(doc)
                          THEN created \cup {[id |-> doc.v["id"].v,
                                              payload |-> req[p].payload]}
                          ELSE created
    /\ DbSame
    /\ UNCHANGED <<dbOk, req, pre, nreq, ser>>

\* pl = {**payload.model_dump(), "tracks": []}
NewPlaylist(payload) ==
    [k \in PlaylistFields \cup {"tracks"} |->
        IF k = "tracks" THEN PyList(<<>>) ELSE payload[k]]

\* POST /playlists, up to create_document
create_playlist(p, payload) ==
    /\ Start(p, [op |-> "create_playlist", payload |-> payload])
    /\ IF ~dbOk
         THEN /\ Finish(p, HTTPException(400, "exception"))
              /\ DbSame
         ELSE /\ playlist' = create_document(playlist, NewPlaylist(payload), nextOid)
              /\ nextOid' = nextOid + 1
              /\ Goto(p, "create_playlist_find", [i |-> 0, id |-> inserted_id(nextOid)])
              /\ UNCHANGED track
    /\ UNCHANGED <<dbOk, created, ser>>

\* POST /playlists, from find_one to the response
create_playlist_find(p) ==
    /\ pc[p] = "create_playlist_find"
    /\ Finish(p, Response(200, serialize_doc(find_one(playlist, ObjectId(loc[p].id)))))
    /\ DbSame
    /\ UNCHANGED <<dbOk, req, pre, created, nreq, ser>>

\* An add-track that stores the string as it was sent.
AddedValue_raw(track_id) == track_id

\* The value add_track_to_playlist hands to $addToSet: str(tid).
AddedValue(track_id) == str(ObjectId(track_id))

\* An add-track that stores a track_id it could not parse as it was sent.
add_track_unchecked(p, playlist_id, track_id) ==
    /\ Start(p, [op |-> "add_track_to_playlist", playlist_id |-> playlist_id,
                 track_id |-> track_id])
    /\ IF ~is_valid(playlist_id)
         THEN /\ Finish(p, HTTPException(400, "InvalidId"))
              /\ DbSame
         ELSE IF ~dbOk
         THEN /\ Finish(p, HTTPException(400, "exception"))
              /\ DbSame
         ELSE /\ playlist' = update_one(playlist, ObjectId(playlist_id),
                                IF is_valid(track_id) THEN AddedValue(track_id)
                                                      ELSE track_id)
              /\ Goto(p, "add_track_find", [i |-> 0, id |-> str(ObjectId(playlist_id))])
              /\ UNCHANGED <<track, nextOid>>
    /\ UNCHANGED <<dbOk, created, ser>>

\* POST /playlists/{playlist_id}/tracks, up to update_one
add_track_to_playlist(p, playlist_id, track_id) ==
    /\ Start(p, [op |-> "add_track_to_playlist", playlist_id |-> playlist_id,
                 track_id |-> track_id])
    /\ IF ~is_valid(playlist_id)
         THEN /\ Finish(p, HTTPException(400, "InvalidId"))
              /\ DbSame
         ELSE IF ~is_valid(track_id)
         THEN /\ Finish(p, HTTPException(400, "400: Invalid track id"))
              /\ DbSame
         ELSE IF ~dbOk
         THEN /\ Finish(p, HTTPException(400, "exception"))
              /\ DbSame
         ELSE /\ playlist' = update_one(playlist, ObjectId(playlist_id),
                                        AddedValue(track_id))
              /\ Goto(p, "add_track_find", [i |-> 0, id |-> str(ObjectId(playlist_id))])
              /\ UNCHANGED <<track, nextOid>>
    /\ UNCHANGED <<dbOk, created, ser>>

\* POST /playlists/{playlist_id}/tracks, from find_one to the response
add_track_find(p) ==
    /\ pc[p] = "add_track_find"
    /\ Finish(p, Response(200, serialize_doc(find_one(playlist, ObjectId(loc[p].id)))))
    /\ DbSame
    /\ UNCHANGED <<dbOk, req, pre, created, nreq, ser>>

\* GET /test; url_set and name_set: whether DATABASE_URL and DATABASE_NAME
\* are set in the environment.
\* (The status strings are written without their leading marks.)
test_database(p, url_set, name_set) ==
    /\ Start(p, [op |-> "test_database"])
    /\ Finish(p, Response(200, PyDict(
           [backend |-> PyStr("Running"),
            database |-> PyStr(IF dbOk THEN "Connected & Working"
                                       ELSE "Available but not initialized"),
            database_url |-> PyStr(IF url_set THEN "Set" ELSE "Not Set"),
            database_name |-> PyStr(IF name_set THEN "Set" ELSE "Not Set"),
            connection_status |-> PyStr(IF dbOk THEN "Connected" ELSE "Not Connected"),
            collections |-> PyList(IF dbOk THEN SubSeq(list_collection_names, 1,
                                                        Min(10, Len(list_collection_names)))
                                           ELSE <<>>)])))
    /\ DbSame
    /\ UNCHANGED <<dbOk, created, ser>>

(***************************************************************************)
(* Inputs of the requests                                                  *)
(***************************************************************************)
TrackPayloads ==
    { [title |-> PyStr("X"), artist |-> PyStr("Y"), album |-> PyNone,
       cover_url |-> PyNone, audio_url |-> PyStr("http://a/b.mp3"),
       duration_ms |-> PyNone],
      [title |-> PyStr("X"), artist |-> PyStr("Z"), album |-> PyStr("A"),
       cover_url |-> PyStr("http://a/c.png"), audio_url |-> PyStr("http://a/d.mp3"),
       duration_ms |-> PyInt(1000)] }

PlaylistPayloads ==
    { [name |-> PyStr("Mix"), description |-> PyNone, cover_url |-> PyNone] }

\* Identifier strings sent by clients: canonical, upper-case and malformed.
PlaylistIdInputs == {HexLower(1), HexUpper(1), HexLower(2), "bad-id"}
TrackIdInputs == {HexLower(1), HexUpper(1), HexLower(2), "alsobad"}

\* Values of the `limit` query parameter.
LimitInputs == -1..2
BulkLimitInputs ==
    {-1, 0, 1, TracksDefaultLimit - 1, TracksDefaultLimit, TracksDefaultLimit + 1,
     MaxDocs + 1}

(***************************************************************************)
(* Sequential service: one worker, one request at a time, starting from    *)
(* the empty store.                                                        *)
(***************************************************************************)
NoSer == [in |-> PyNone, outs |-> <<>>]

InitWorkers ==
    /\ pc = [p \in Procs |-> "idle"]
    /\ req = [p \in Procs |-> NoReq]
    /\ loc = [p \in Procs |-> NoLoc]
    /\ resp = [p \in Procs |-> NoResp]
    /\ pre = [p \in Procs |-> Snapshot]
    /\ created = {}
    /\ nreq = 0

Init ==
    /\ dbOk \in BOOLEAN
    /\ track = <<>>
    /\ playlist = <<>>
    /\ nextOid = 1
    /\ InitWorkers
    /\ ser = NoSer

\* The continuation of whatever handler worker p is in.
Continue(p) ==
    \/ seed_insert(p)
    \/ create_track_find(p)
    \/ create_playlist_find(p)
    \/ add_track_find(p)

Next ==
    \/ nreq < MaxReq /\ read_root(1)
    \/ nreq < MaxReq /\ seed(1)
    \/ nreq < MaxReq /\ \E l \in LimitInputs : list_tracks(1, TRUE, l)
    \/ nreq < MaxReq /\ list_tracks(1, FALSE, TracksDefaultLimit)
    \/ nreq < MaxReq /\ \E l \in LimitInputs : list_playlists(1, TRUE, l)
    \/ nreq < MaxReq /\ list_playlists(1, FALSE, PlaylistsDefaultLimit)
    \/ nreq < MaxReq /\ \E t \in TrackPayloads : create_track(1, t)
    \/ nreq < MaxReq /\ \E t \in PlaylistPayloads : create_playlist(1, t)
    \/ nreq < MaxReq /\ \E a \in PlaylistIdInputs, b \in TrackIdInputs :
                            add_track_to_playlist(1, a, b)
    \/ nreq < MaxReq /\ \E u, n \in BOOLEAN : test_database(1, u, n)
    \/ Continue(1)

Spec == Init /\ [][Next]_vars

(***************************************************************************)
(* Concurrent service: every worker of the pool serves one request, seed   *)
(* or add-track on the existing playlist, interleaved at the database      *)
(* calls.  The store holds one playlist (created by POST /playlists, and   *)
(* possibly one track identifier added to it) and no track.                *)
(***************************************************************************)
ConcTrackIdInputs == {HexLower(2), HexUpper(2), HexLower(3)}

ExistingPlaylist(ids) ==
    [_id |-> PyOid(1), name |-> PyStr("Mix"), description |-> PyNone,
     cover_url |-> PyNone, tracks |-> PyList(ids)]

InitConc ==
    /\ dbOk = TRUE
    /\ track = <<>>
    /\ playlist \in {<<ExistingPlaylist(<<>>)>>,
                     <<ExistingPlaylist(<<PyStr(HexLower(2))>>)>>}
    /\ nextOid = 2
    /\ InitWorkers
    /\ ser = NoSer

NextConc ==
    \E p \in Procs :
        \/ req[p] = NoReq /\ seed(p)
        \/ req[p] = NoReq /\ \E b \in ConcTrackIdInputs :
                                 add_track_to_playlist(p, HexLower(1), b)
        \/ seed_insert(p)
        \/ add_track_find(p)

SpecConc == InitConc /\ [][NextConc]_vars

(***************************************************************************)
(* Sequential service on a store that already holds many documents: n      *)
(* tracks and n playlists inserted earlier, for several n around the       *)
(* default limit of the list routes.                                       *)
(***************************************************************************)
BulkSizes == {0, TracksDefaultLimit - 1, TracksDefaultLimit, MaxDocs}

BulkPayload(i) ==
    CHOOSE t \in TrackPayloads : (t.album = PyNone) <=> (i % 2 = 0)

BulkTracks(n) ==
    [i \in 1..n |-> [k \in TrackFields \cup {"_id"} |->
                        IF k = "_id" THEN PyOid(i) ELSE BulkPayload(i)[k]]]

BulkPlaylists(n) ==
    [i \in 1..n |-> [ExistingPlaylist(<<>>) EXCEPT !["_id"] = PyOid(n + i)]]

InitBulk ==
    /\ dbOk = TRUE
    /\ \E n \in BulkSizes :
          /\ track = BulkTracks(n)
          /\ playlist = BulkPlaylists(n)
          /\ nextOid = 2 * n + 1
    /\ InitWorkers
    /\ ser = NoSer

NextBulk ==
    \/ nreq < MaxReq /\ \E l \in BulkLimitInputs : list_tracks(1, TRUE, l)
    \/ nreq < MaxReq /\ list_tracks(1, FALSE, TracksDefaultLimit)
    \/ nreq < MaxReq /\ \E l \in BulkLimitInputs : list_playlists(1, TRUE, l)
    \/ nreq < MaxReq /\ list_playlists(1, FALSE, PlaylistsDefaultLimit)
    \/ nreq < MaxReq /\ \E t \in TrackPayloads : create_track(1, t)
    \/ nreq < MaxReq /\ \E t \in PlaylistPayloads : create_playlist(1, t)
    \/ create_track_find(1)
    \/ create_playlist_find(1)

SpecBulk == InitBulk /\ [][NextBulk]_vars

(***************************************************************************)
(* serialize_doc as a function: applied once and then again to documents   *)
(* of every shape (no document, the empty one, with and without `_id`,     *)
(* `_id` an ObjectId or another value, other ObjectId-valued fields).      *)
(***************************************************************************)
Absent == [t |-> "absent", v |-> 0]

DocChoices ==
    [ {"_id", "id", "title", "ref"} ->
        {Absent, PyOid(1), PyNone, PyInt(0), PyInt(7), PyStr(""),
         PyStr(HexLower(1)), PyStr("X")} ]

DocShapes ==
    { c \in DocChoices :
        /\ c["id"] \in {Absent, PyStr(HexLower(1))}
        /\ c["title"] \in {Absent, PyStr("X")}
        /\ c["ref"] \in {Absent, PyOid(1), PyStr(HexLower(1))} }

MkDoc(c) == [k \in {f \in DOMAIN c : c[f] # Absent} |-> c[k]]

DocInputs == {PyNone} \cup {PyDict(MkDoc(c)) : c \in DocShapes}

InitSerialize ==
    /\ dbOk = TRUE
    /\ track = <<>>
    /\ playlist = <<>>
    /\ nextOid = 1
    /\ InitWorkers
    /\ \E d \in DocInputs : ser = [in |-> d, outs |-> <<>>]

\* serialize_doc applied to the input, then to its own result.
serialize_again ==
    /\ Len(ser.outs) < 2
    /\ ser' = [ser EXCEPT !.outs =
                  Append(@, serialize_doc(IF @ = <<>> THEN ser.in ELSE @[Len(@)]))]
    /\ UNCHANGED <<dbOk, track, playlist, nextOid, pc, req, loc, resp, pre,
                   created, nreq>>

NextSerialize == serialize_again

SpecSerialize == InitSerialize /\ [][NextSerialize]_vars

(***************************************************************************)
(* Properties                                                              *)
(***************************************************************************)
NoDup(s) == \A i, j \in DOMAIN s : s[i] = s[j] => i = j

IsPrefix(s, t) == Len(s) <= Len(t) /\ SubSeq(t, 1, Len(s)) = s

\* Worker p has returned the response of a request with operation op.
Returned(p, op) == pc[p] = "idle" /\ req[p].op = op

\* The three demo tracks as stored when the first one got identifier n.
DemoDocs(n) ==
    [i \in 1..3 |-> [k \in TrackFields \cup {"_id"} |->
                        IF k = "_id" THEN PyOid(n + i - 1) ELSE demo_tracks[i][k]]]

\* The `tracks` array of the playlist with identifier oid in collection coll.
TracksOf(coll, oid) == coll[FirstMatch(coll, oid)]["tracks"].v

\* C1: a POST /seed on an empty track collection (database configured)
\* inserts exactly the three demo tracks and reports seeded=true, count=3,
\* never holding more than three on the way; a POST /seed on a non-empty
\* track collection leaves every collection unchanged and reports
\* seeded=false with the existing count, which is 3 right after the first
\* seed.
C1_SeedIdempotent ==
    /\ (dbOk /\ req[1].op = "seed" /\ pre[1].track = <<>>) => Len(track) <= 3
    /\ (dbOk /\ Returned(1, "seed")) =>
          /\ pre[1].track = <<>> =>
                /\ track = DemoDocs(pre[1].nextOid)
                /\ playlist = pre[1].playlist
                /\ resp[1] = Seeded(3)
          /\ pre[1].track # <<>> =>
                /\ Snapshot = pre[1]
                /\ resp[1] = NotSeeded(Len(pre[1].track))
          /\ pre[1].track = DemoDocs(1) =>
                /\ resp[1] = NotSeeded(3)
                /\ track = DemoDocs(1)

\* Two POST /seed in a row from the empty store: the second has returned.
C1_Witness ==
    /\ nreq = 2
    /\ Returned(1, "seed")
    /\ pre[1].track = DemoDocs(1)
    /\ track = DemoDocs(1)
    /\ resp[1] = NotSeeded(3)

\* An add-track request of worker p that reached update_one on a playlist
\* that existed when the request came in.
AddedToExisting(p) ==
    /\ Returned(p, "add_track_to_playlist")
    /\ dbOk
    /\ is_valid(req[p].playlist_id)
    /\ is_valid(req[p].track_id)
    /\ Matches(pre[p].playlist, ObjectId(req[p].playlist_id)) # {}

\* C2: no playlist's `tracks` holds the same string twice; add-track on an
\* existing playlist leaves `tracks` unchanged when it already holds the
\* canonical (lower-case) string form of the track identifier, and
\* otherwise appends exactly that canonical form, once.
C2_NoDuplicateTracks ==
    /\ \A i \in DOMAIN playlist : NoDup(playlist[i]["tracks"].v)
    /\ AddedToExisting(1) =>
          LET oid == ObjectId(req[1].playlist_id)
              old == TracksOf(pre[1].playlist, oid)
              new == TracksOf(playlist, oid)
              s == PyStr(str(ObjectId(req[1].track_id)))
          IN IF s \in Elems(old) THEN new = old ELSE new = Append(old, s)

\* C2 as stated: what decides is whether `tracks` holds the identifier
\* string that was sent.
C2_AsStated ==
    /\ \A i \in DOMAIN playlist : NoDup(playlist[i]["tracks"].v)
    /\ AddedToExisting(1) =>
          LET oid == ObjectId(req[1].playlist_id)
              old == TracksOf(pre[1].playlist, oid)
              new == TracksOf(playlist, oid)
          IN IF PyStr(req[1].track_id) \in Elems(old)
               THEN new = old
               ELSE Len(new) = Len(old) + 1 /\ IsPrefix(old, new)

\* The same identifier added twice, the second time in upper case.
C2_Witness ==
    /\ AddedToExisting(1)
    /\ req[1].track_id = HexUpper(1)
    /\ TracksOf(pre[1].playlist, ObjectId(req[1].playlist_id)) = <<PyStr(HexLower(1))>>
    /\ TracksOf(playlist, ObjectId(req[1].playlist_id)) = <<PyStr(HexLower(1))>>
    /\ resp[1].status = 200

\* Every worker has served its request.
AllDone == \A p \in Procs : pc[p] = "idle" /\ req[p] # NoReq

Adders == {p \in Procs : req[p].op = "add_track_to_playlist"}

\* C3: under any interleaving of concurrent add-track requests on the same
\* playlist, `tracks` never holds a value twice, holds the value of every
\* request whose update_one has run, keeps every value it held, and holds
\* nothing else; so once all have returned it holds each added value once.
C3_ConcurrentAdds ==
    LET tr == TracksOf(playlist, PyOid(1))
    IN /\ NoDup(tr)
       /\ \A p \in Adders :
             /\ PyStr(AddedValue(req[p].track_id)) \in Elems(tr)
             /\ IsPrefix(TracksOf(pre[p].playlist, PyOid(1)), tr)
       /\ Elems(tr) \subseteq
             {PyStr(HexLower(2))} \cup {PyStr(AddedValue(req[p].track_id)) : p \in Adders}
       /\ AllDone =>
             \A p \in Adders : resp[p].status = 200

\* Two concurrent add-track requests with different identifiers returned.
C3_Witness ==
    /\ AllDone
    /\ \E p, q \in Adders : AddedValue(req[p].track_id) # AddedValue(req[q].track_id)
                            /\ pre[p] = pre[q]
    /\ Len(TracksOf(playlist, PyOid(1))) >= 2


\* The identifier strings of the documents of a store.
IdsOf(store) ==
    {str(store.track[i]["_id"]) : i \in DOMAIN store.track}
    \cup {str(store.playlist[i]["_id"]) : i \in DOMAIN store.playlist}

\* Record rec (a serialized track) has identifier id and the payload's values.
IsRecordOf(rec, id, payload) ==
    /\ rec.t = "dict"
    /\ "id" \in DOMAIN rec.v
    /\ rec.v["id"] = PyStr(id)
    /\ \A k \in TrackFields : rec.v[k] = payload[k]

\* The body of a 200 response of a list route holds a record of c.
Lists(body, c) == \E j \in DOMAIN body.v : IsRecordOf(body.v[j], c.id, c.payload)

\* C4: with a configured database POST /tracks returns a record whose id
\* is a string that no earlier document has, with the submitted values;
\* a later GET /tracks without limit returns that record whenever the
\* track is among the first 50 documents of the track collection.
C4_CreateRoundTrip ==
    /\ (dbOk /\ Returned(1, "create_track")) =>
          /\ resp[1].status = 200
          /\ IsRecordOf(resp[1].body, resp[1].body.v["id"].v, req[1].payload)
          /\ resp[1].body.v["id"].v \notin IdsOf(pre[1])
          /\ \E c \in created : c.id = resp[1].body.v["id"].v
    /\ (dbOk /\ Returned(1, "list_tracks") /\ ~req[1].has_limit) =>
          /\ resp[1].status = 200
          /\ \A c \in created :
                (\E i \in 1..Min(TracksDefaultLimit, Len(track)) :
                     str(track[i]["_id"]) = c.id)
                => Lists(resp[1].body, c)

\* C4 as stated: GET /tracks without limit returns every created track.
C4_AsStated ==
    /\ (dbOk /\ Returned(1, "create_track")) =>
          /\ resp[1].status = 200
          /\ IsRecordOf(resp[1].body, resp[1].body.v["id"].v, req[1].payload)
          /\ resp[1].body.v["id"].v \notin IdsOf(pre[1])
    /\ (dbOk /\ Returned(1, "list_tracks") /\ ~req[1].has_limit) =>
          /\ resp[1].status = 200
          /\ \A c \in created : Lists(resp[1].body, c)

\* A track created as the 50th document is listed by GET /tracks.
C4_Witness ==
    /\ Returned(1, "list_tracks")
    /\ ~req[1].has_limit
    /\ Len(track) = TracksDefaultLimit
    /\ \E c \in created : c.id = str(track[TracksDefaultLimit]["_id"])
                          /\ Lists(resp[1].body, c)

\* Number of records in the response of a list route (none on an error).
Records(r) == IF r.status = 200 THEN Len(r.body.v) ELSE 0

IsList(p) == Returned(p, "list_tracks") \/ Returned(p, "list_playlists")

\* C5: for every limit > 0, GET /tracks and GET /playlists return at most
\* `limit` records, and at most 50 when `limit` is omitted.
C5_ListLimit ==
    IsList(1) =>
       IF req[1].has_limit
         THEN req[1].limit > 0 => Records(resp[1]) <= req[1].limit
         ELSE Records(resp[1]) <= 50

\* C5 as stated: for every integer limit.
C5_AsStated ==
    IsList(1) =>
       IF req[1].has_limit
         THEN Records(resp[1]) <= req[1].limit
         ELSE Records(resp[1]) <= 50

\* GET /tracks without limit on 51 tracks returned 50 records.
C5_Witness ==
    /\ Returned(1, "list_tracks")
    /\ ~req[1].has_limit
    /\ Len(track) > TracksDefaultLimit
    /\ Records(resp[1]) = TracksDefaultLimit

\* C6: add-track with a malformed playlist_id or track_id answers 400 and
\* leaves every track and playlist document as it was.
C6_MalformedId ==
    (Returned(1, "add_track_to_playlist")
       /\ (~is_valid(req[1].playlist_id) \/ ~is_valid(req[1].track_id)))
    => /\ resp[1].status = 400
       /\ track = pre[1].track
       /\ playlist = pre[1].playlist

\* A malformed track_id sent to an existing playlist was answered 400.
C6_Witness ==
    /\ Returned(1, "add_track_to_playlist")
    /\ is_valid(req[1].playlist_id)
    /\ ~is_valid(req[1].track_id)
    /\ Matches(playlist, ObjectId(req[1].playlist_id)) # {}
    /\ resp[1].status = 400

\* C7: add-track with two well-formed identifiers and no playlist of that
\* identifier answers 400 and creates or modifies no playlist document.
C7_MissingPlaylist ==
    (Returned(1, "add_track_to_playlist")
       /\ is_valid(req[1].playlist_id) /\ is_valid(req[1].track_id)
       /\ Matches(pre[1].playlist, ObjectId(req[1].playlist_id)) = {})
    => /\ resp[1].status = 400
       /\ playlist = pre[1].playlist

HasOidValue(d) == \E k \in DOMAIN d : d[k].t = "ObjectId"

PlaylistFixed(d) == [k \in DOMAIN d \ {"tracks"} |-> d[k]]

ReadOnlyOps == {"list_tracks", "list_playlists", "test_database", "read_root"}

\* C9: no step deletes or rewrites a track document; a playlist document
\* keeps its identifier, name, description and cover_url and its `tracks`
\* only grows at the end, and only in the update step of add-track; the GET
\* routes change nothing in the store.
C9_Frame ==
    [][ /\ IsPrefix(track, track')
        /\ Len(playlist) <= Len(playlist')
        /\ \A i \in DOMAIN playlist :
              /\ PlaylistFixed(playlist'[i]) = PlaylistFixed(playlist[i])
              /\ IsPrefix(playlist[i]["tracks"].v, playlist'[i]["tracks"].v)
              /\ playlist'[i] # playlist[i] =>
                    (pc[1] = "idle" /\ req'[1].op = "add_track_to_playlist")
        /\ (pc[1] = "idle" /\ req'[1].op \in ReadOnlyOps) =>
              (track' = track /\ playlist' = playlist /\ nextOid' = nextOid)
      ]_vars

\* A GET route served on a store with a track and a playlist that holds a
\* track identifier.
C9_Witness ==
    /\ Returned(1, "list_playlists")
    /\ Len(track) > 0
    /\ Len(playlist) > 0
    /\ Len(playlist[1]["tracks"].v) > 0
    /\ resp[1].status = 200

Seeders == {p \in Procs : req[p].op = "seed"}

\* C10: once concurrent POST /seed requests on an empty track collection
\* have all returned, the collection holds exactly the three demo tracks
\* and at most one request reported seeded=true.
C10_ConcurrentSeed ==
    (AllDone /\ Cardinality(Seeders) >= 2) =>
       /\ Len(track) = 3
       /\ Cardinality({p \in Seeders : resp[p] = Seeded(3)}) <= 1

====
